---------------------------- MODULE Spec2Model ----------------------------
(***************************************************************************)
(* serial_device: the event combinator (or_event.py) and the keep-alive    *)
(* serial session (threaded.py).                                           *)
(*                                                                         *)
(* Every thread is a position (pc), the state of the Event.wait() it is in *)
(* (wst, wev, wto) and the position inside a set()/clear() call of a       *)
(* patched event (sub).  threading.Event's own methods are atomic (they    *)
(* hold the event's lock); the callback `changed` of or_event.py is not:   *)
(* it reads the sources and then sets or clears the combined event, and    *)
(* other threads run in between.                                           *)
(***************************************************************************)
EXTENDS Integers, FiniteSets, Sequences, TLC

\* ----------------------------------------------------------------- bounds
MaxSources == 2      \* source events of the combinator specification
MaxWaiters == 2      \* threads waiting on combinators
MaxOpens == 2        \* transports one session opens
MaxTime == 3         \* time units the clock runs for
MaxTimeout == 2      \* largest timeout_s given to request()
MaxResponses == 2    \* items put into a response queue
MaxRequests == 2     \* request() calls one caller makes, one after another
MaxConnects == 2     \* transports the manager opens

VARIABLES
    flag,        \* Event._flag of every event
    hooked,      \* source event has set/clear overridden (hasattr(event, '_set'))
    cb,          \* event.changed of every source event
    srcs,        \* the `events` tuple closed over by each combinator's changed()
    cgen,        \* which transport's combinator object each combinator name holds
    pc,          \* position of every thread
    sub,         \* position of every thread inside or_set / or_clear / changed
    wst,         \* Event.wait() of every thread: none, blocked, true, false
    wev,         \* the event a blocked thread waits on
    wto,         \* whether the wait a thread is blocked in has a timeout
    gen,         \* number of transports the session has opened
    serialOpen,  \* the transport opened last is open
    protocol,    \* KeepAliveReader.protocol: the transport it belongs to, 0 for None
    avail,       \* the port is in comports(only_available=True)
    hasTimeout,  \* default_timeout_s is not None
    scoped,      \* the client uses the session as a context manager
    errorCause,  \* KeepAliveReader.error.exception
    wres,        \* what connected.wait(timeout_s) returned in write()
    wclosed,     \* `closed` was set when write() was called (history)
    wout,        \* how write() ended
    sent,        \* transports write() handed data to
    now,         \* the clock, in whole time units
    req,         \* every request() call: position, arguments, start, result
    response_queue, \* the items in the response queue of every caller
    pushed,      \* number of items put into the response queues
    tx,          \* payloads written to the device, in order
    open_devices,  \* SerialDeviceManager.open_devices: port -> transport, 0 if absent
    transport,   \* every ReaderThread: its serial port, its settings, alive
    opened,      \* number of transports opened for every port
    th,          \* position of the MQTT handler, the main and the reader threads
    status,      \* retained message of serial_device/<port>/status
    out          \* what the last step published or wrote

evars == <<flag, hooked, cb, srcs, cgen>>
tvars == <<pc, sub, wst, wev, wto>>
svars == <<gen, serialOpen, protocol, avail, hasTimeout, scoped, errorCause,
           wres, wclosed, wout, sent>>
rvars == <<now, req, response_queue, pushed, tx>>
mvars == <<open_devices, transport, opened, th, status, out>>
xvars == <<rvars, mvars>>
vars == <<flag, hooked, cb, srcs, cgen, pc, sub, wst, wev, wto, gen,
          serialOpen, protocol, avail, hasTimeout, scoped, errorCause, wres,
          wclosed, wout, sent, now, req, response_queue, pushed, tx, open_devices,
          transport, opened, th, status, out>>

\* no SerialDeviceManager is modelled
NoManager ==
    /\ open_devices = <<>> /\ transport = <<>> /\ opened = <<>>
    /\ th = <<>> /\ status = <<>> /\ out = <<>>

\* no request() call is modelled
NoRequests ==
    /\ now = 0 /\ req = <<>> /\ response_queue = <<>>
    /\ pushed = 0 /\ tx = <<>>
    /\ NoManager

NoCb == [c |-> "none", g |-> 0]
NoSub == [st |-> "none"]

\* ------------------------------------------------- threading.Event layer

\* Event.set(): the flag becomes true and every thread blocked in wait() on
\* this event is released with result True (Condition.notify_all).
Event_set(e) ==
    /\ flag' = [flag EXCEPT ![e] = TRUE]
    /\ wst' = [t \in DOMAIN wst |->
                 IF wst[t] = "blocked" /\ wev[t] = e THEN "true" ELSE wst[t]]
    /\ wev' = [t \in DOMAIN wst |->
                 IF wst[t] = "blocked" /\ wev[t] = e THEN "none" ELSE wev[t]]
    /\ wto' = [t \in DOMAIN wst |->
                 IF wst[t] = "blocked" /\ wev[t] = e THEN FALSE ELSE wto[t]]

\* Event.clear()
Event_clear(e) ==
    /\ flag' = [flag EXCEPT ![e] = FALSE]
    /\ UNCHANGED <<wst, wev, wto>>

\* Event.wait(timeout) entered by thread t: returns True at once when the
\* flag is set, blocks otherwise.
Event_wait(t, e, timeout) ==
    /\ wst' = [wst EXCEPT ![t] = IF flag[e] THEN "true" ELSE "blocked"]
    /\ wev' = [wev EXCEPT ![t] = IF flag[e] THEN "none" ELSE e]
    /\ wto' = [wto EXCEPT ![t] = ~flag[e] /\ timeout]

\* the timeout of a blocked wait elapses: wait() returns False
WaitTimeout(t) ==
    /\ wst[t] = "blocked"
    /\ wto[t]
    /\ wst' = [wst EXCEPT ![t] = "false"]
    /\ wev' = [wev EXCEPT ![t] = "none"]
    /\ wto' = [wto EXCEPT ![t] = FALSE]
    /\ UNCHANGED <<evars, pc, sub, svars, xvars>>

\* ------------------------------------------------------------ or_event.py

\* orify(event, changed_callback) for every event of S: event.changed is
\* assigned unconditionally; set/clear are overridden once.
orify(S, c, g) ==
    /\ cb' = [e \in DOMAIN cb |-> IF e \in S THEN [c |-> c, g |-> g] ELSE cb[e]]
    /\ hooked' = [e \in DOMAIN hooked |-> IF e \in S THEN TRUE ELSE hooked[e]]

all_set(c) == \A e \in srcs[c] : flag[e]

\* bools = [event_i.is_set() for event_i in events]; any(bools)
any_set(c) == \E e \in srcs[c] : flag[e]

or_set_plain(t, e) ==
    /\ Event_set(e)
    /\ sub' = [sub EXCEPT ![t] = NoSub]

\* event.set() called by thread t: the original set (or_set's self._set())
\* when overridden, followed by self.changed(); the plain set otherwise.
or_set(t, e) ==
    /\ Event_set(e)
    /\ sub' = [sub EXCEPT ![t] =
                 IF hooked[e] THEN [st |-> "changed", e |-> e] ELSE NoSub]

\* event.clear() called by thread t
or_clear(t, e) ==
    /\ Event_clear(e)
    /\ sub' = [sub EXCEPT ![t] =
                 IF hooked[e] THEN [st |-> "changed", e |-> e] ELSE NoSub]

\* `self.changed()` in or_set / or_clear: the attribute is looked up when the
\* call is made, so the callback is the one installed last.
self_changed(t) ==
    /\ sub[t].st = "changed"
    /\ sub' = [sub EXCEPT ![t] =
                 [st |-> "read", c |-> cb[sub[t].e].c, g |-> cb[sub[t].e].g]]
    /\ UNCHANGED <<evars, pc, wst, wev, wto, svars, xvars>>

\* changed(), first half: read the sources.  A callback that belongs to a
\* combinator of an earlier transport reads and writes objects nobody holds.
changed_read(t) ==
    /\ sub[t].st = "read"
    /\ sub' = [sub EXCEPT ![t] =
                 [st |-> "write", c |-> sub[t].c, g |-> sub[t].g,
                  v |-> IF sub[t].g = cgen[sub[t].c] THEN any_set(sub[t].c)
                        ELSE FALSE]]
    /\ UNCHANGED <<evars, pc, wst, wev, wto, svars, xvars>>

\* changed(), second half: or_event.set() or or_event.clear()
changed_write(t) ==
    /\ sub[t].st = "write"
    /\ IF sub[t].g # cgen[sub[t].c] THEN UNCHANGED <<flag, wst, wev, wto, xvars>>
       ELSE IF sub[t].v THEN Event_set(sub[t].c)
       ELSE Event_clear(sub[t].c)
    /\ sub' = [sub EXCEPT ![t] = NoSub]
    /\ UNCHANGED <<hooked, cb, srcs, cgen, pc, svars, xvars>>

\* ------------------------------------------------------------------------
\* The combinator on its own: one thread builds combinators over subsets of
\* the sources and sets and clears the sources, call after call; the other
\* threads wait on the combinators.
Sources == {<<"src", i>> : i \in 1..MaxSources}
Combs == {<<"or", 1>>, <<"or", 2>>}
Driver == <<"driver", 0>>
Waiters == {<<"waiter", i>> : i \in 1..MaxWaiters}

built(c) == srcs[c] # {}

OrInit ==
    /\ flag = [e \in Sources \cup Combs |-> FALSE]
    /\ hooked = [e \in Sources |-> FALSE]
    /\ cb = [e \in Sources |-> NoCb]
    /\ srcs = [c \in Combs |-> {}]
    /\ cgen = [c \in Combs |-> 0]
    /\ pc = [t \in {Driver} \cup Waiters |-> "idle"]
    /\ sub = [t \in {Driver} \cup Waiters |-> NoSub]
    /\ wst = [t \in {Driver} \cup Waiters |-> "none"]
    /\ wev = [t \in {Driver} \cup Waiters |-> "none"]
    /\ wto = [t \in {Driver} \cup Waiters |-> FALSE]
    /\ gen = 0 /\ serialOpen = FALSE /\ protocol = 0 /\ avail = FALSE
    /\ hasTimeout = FALSE /\ scoped = FALSE /\ errorCause = "none"
    /\ wres = "none" /\ wclosed = FALSE /\ wout = "none" /\ sent = {}
    /\ NoRequests

\* OrEvent(*events): a new event, orify() of every source, then changed()
\* to set the initial state.
OrEvent(c, S) ==
    /\ sub[Driver] = NoSub
    /\ ~built(c)
    /\ \A k \in 1..(c[2] - 1) : built(<<"or", k>>)
    /\ S # {}
    /\ srcs' = [srcs EXCEPT ![c] = S]
    /\ orify(S, c, 0)
    /\ sub' = [sub EXCEPT ![Driver] = [st |-> "read", c |-> c, g |-> 0]]
    /\ UNCHANGED <<flag, cgen, pc, wst, wev, wto, svars, xvars>>

SourceSet(s) ==
    /\ sub[Driver] = NoSub
    /\ or_set(Driver, s)
    /\ UNCHANGED <<hooked, cb, srcs, cgen, pc, svars, xvars>>

SourceClear(s) ==
    /\ sub[Driver] = NoSub
    /\ or_clear(Driver, s)
    /\ UNCHANGED <<hooked, cb, srcs, cgen, pc, svars, xvars>>

\* or_event.wait(timeout) by a thread that is not in a wait; wst keeps what
\* its last wait returned.
WaiterWait(w, c) ==
    /\ wst[w] # "blocked"
    /\ built(c)
    /\ Event_wait(w, c, TRUE)
    /\ UNCHANGED <<evars, pc, sub, svars, xvars>>

OrNext ==
    \/ \E c \in Combs, S \in SUBSET Sources : OrEvent(c, S)
    \/ \E s \in Sources : SourceSet(s)
    \/ \E s \in Sources : SourceClear(s)
    \/ self_changed(Driver)
    \/ changed_read(Driver)
    \/ changed_write(Driver)
    \/ \E w \in Waiters, c \in Combs : WaiterWait(w, c)
    \/ \E w \in Waiters : WaitTimeout(w)

SpecOr == OrInit /\ [][OrNext]_vars

\* no set(), clear() or OrEvent() call is in progress
Quiescent == sub[Driver] = NoSub

\* every source of combinator c still calls c's changed()
Owns(c) == built(c) /\ \A e \in srcs[c] : cb[e].c = c

\* the logical OR of the sources of combinator c
SourceOr(c) == \E e \in srcs[c] : flag[e] = TRUE

C9_SharedSourceKeepsAll ==
    Quiescent => \A c \in Combs : built(c) => (flag[c] = SourceOr(c))

SThreads == {"run", "reader", "client", "writer"}
SSources == {"connected", "closed", "close_request", "pconnected",
             "pdisconnected"}
SCombs == {"connected_event", "disconnected_event", "enter_event"}
SEvents == SSources \cup SCombs \cup {"error", "has_connected"}

Init ==
    /\ flag = [e \in SEvents |-> FALSE]
    /\ hooked = [e \in SEvents |-> FALSE]
    /\ cb = [e \in SEvents |-> NoCb]
    /\ srcs = [c \in SCombs |->
                 IF c = "connected_event" THEN {"pconnected", "close_request"}
                 ELSE IF c = "disconnected_event"
                      THEN {"pdisconnected", "close_request"}
                 ELSE {"connected", "closed"}]
    /\ cgen = [c \in SCombs |-> 0]
    /\ pc = [t \in SThreads |->
               IF t = "run" THEN "new" ELSE IF t = "reader" THEN "none"
               ELSE "idle"]
    /\ sub = [t \in SThreads |-> NoSub]
    /\ wst = [t \in SThreads |-> "none"]
    /\ wev = [t \in SThreads |-> "none"]
    /\ wto = [t \in SThreads |-> FALSE]
    /\ gen = 0 /\ serialOpen = FALSE /\ protocol = 0
    /\ avail \in BOOLEAN
    /\ hasTimeout \in BOOLEAN
    /\ scoped \in BOOLEAN
    /\ errorCause = "none"
    /\ wres = "none" /\ wclosed = FALSE /\ wout = "none" /\ sent = {}
    /\ NoRequests

\* thread t is at position p and not inside a set()/clear() call
At(t, p) == pc[t] = p /\ sub[t] = NoSub

Goto(t, p) == pc' = [pc EXCEPT ![t] = p]

\* thread t, at p, calls e.set() and goes to q
SetAt(t, p, e, q) ==
    /\ At(t, p)
    /\ or_set(t, e)
    /\ Goto(t, q)
    /\ UNCHANGED <<hooked, cb, srcs, cgen, svars, xvars>>

\* thread t, at p, calls e.wait(timeout) and goes to q
WaitAt(t, p, e, timeout, q) ==
    /\ At(t, p)
    /\ Event_wait(t, e, timeout)
    /\ Goto(t, q)
    /\ UNCHANGED <<evars, sub, svars, xvars>>

\* the wait() thread t entered at p has returned
Returned(t, p) == pc[t] = p /\ wst[t] \in {"true", "false"}

\* ---- the environment: the port appears in and disappears from comports()
DeviceAppears ==
    /\ ~avail
    /\ avail' = TRUE
    /\ UNCHANGED <<evars, tvars, gen, serialOpen, protocol, hasTimeout, scoped,
                   errorCause, wres, wclosed, wout, sent, xvars>>

DeviceDisappears ==
    /\ avail
    /\ avail' = FALSE
    /\ UNCHANGED <<evars, tvars, gen, serialOpen, protocol, hasTimeout, scoped,
                   errorCause, wres, wclosed, wout, sent, xvars>>

\* ---- KeepAliveReader.run

\* lines 99-106: the port is not available when the thread starts
run_L100 ==
    /\ At("run", "L100")
    /\ Goto("run", IF avail THEN "L114" ELSE "L107")
    /\ UNCHANGED <<evars, sub, wst, wev, wto, svars, xvars>>

\* a variant of line 107 that attaches no exception
run_L107_skip ==
    /\ At("run", "L107")
    /\ Goto("run", "L108")
    /\ UNCHANGED <<evars, sub, wst, wev, wto, svars, xvars>>

\* line 107: self.error.exception = exception
run_L107 ==
    /\ At("run", "L107")
    /\ errorCause' = "NameError"
    /\ Goto("run", "L108")
    /\ UNCHANGED <<evars, sub, wst, wev, wto, gen, serialOpen, protocol, avail,
                   hasTimeout, scoped, wres, wclosed, wout, sent, xvars>>

\* line 108: self.error.set()
run_L108 == SetAt("run", "L108", "error", "L109")

\* lines 109-110: self.closed.set(); return
run_L109 == SetAt("run", "L109", "closed", "done")

\* lines 114-115: the condition of the inner while loop, on entry ("L114")
\* and after a poll ("L114r")
run_L114 ==
    /\ At("run", "L114") \/ At("run", "L114r")
    /\ Goto("run", IF avail THEN "L127" ELSE "L118")
    /\ UNCHANGED <<evars, sub, wst, wev, wto, svars, xvars>>

\* line 118: self.close_request.wait(2)
run_L118 == WaitAt("run", "L118", "close_request", TRUE, "L118w")

\* the poll goes round again without looking at close_request
run_L119_ignore ==
    /\ Returned("run", "L118w")
    /\ wst' = [wst EXCEPT !["run"] = "none"]
    /\ Goto("run", "L114r")
    /\ UNCHANGED <<evars, sub, wev, wto, svars, xvars>>

\* line 119: if self.close_request.is_set()
run_L119 ==
    /\ Returned("run", "L118w")
    /\ wst' = [wst EXCEPT !["run"] = "none"]
    /\ Goto("run", IF flag["close_request"] THEN "L121" ELSE "L114r")
    /\ UNCHANGED <<evars, sub, wev, wto, svars, xvars>>

\* lines 121-122: self.closed.set(); return
run_L121 == SetAt("run", "L121", "closed", "done")

\* line 127: serial.serial_for_url(...) opens the port; the ReaderThread of
\* line 139 is started on it
run_L127 ==
    /\ At("run", "L127")
    /\ avail
    /\ gen < MaxOpens
    /\ gen' = gen + 1
    /\ serialOpen' = TRUE
    /\ pc' = [pc EXCEPT !["run"] = "L139", !["reader"] = "start"]
    /\ UNCHANGED <<evars, sub, wst, wev, wto, protocol, avail, hasTimeout,
                   scoped, errorCause, wres, wclosed, wout, sent, xvars>>

\* lines 128, 133: serial_for_url raises
run_L127_raise ==
    /\ At("run", "L127")
    /\ \E q \in {"L129", "L134"} : Goto("run", q)
    /\ UNCHANGED <<evars, sub, wst, wev, wto, svars, xvars>>

\* lines 129, 134: self.error.exception = exception
run_L129 ==
    /\ \/ At("run", "L129") /\ errorCause' = "SerialException"
               /\ Goto("run", "L130")
       \/ At("run", "L134") /\ errorCause' = "Exception"
               /\ Goto("run", "L135")
    /\ UNCHANGED <<evars, sub, wst, wev, wto, gen, serialOpen, protocol, avail,
                   hasTimeout, scoped, wres, wclosed, wout, sent, xvars>>

\* lines 130, 135: self.error.set()
run_L130 ==
    \/ SetAt("run", "L130", "error", "L131")
    \/ SetAt("run", "L135", "error", "L136")

\* the handler goes round the loop again without closing the session
run_L131_retry ==
    /\ At("run", "L131") \/ At("run", "L136")
    /\ Goto("run", "L114")
    /\ UNCHANGED <<evars, sub, wst, wev, wto, svars, xvars>>

\* lines 131-132, 136-137: self.closed.set(); return
run_L131 ==
    \/ SetAt("run", "L131", "closed", "done")
    \/ SetAt("run", "L136", "closed", "done")

\* lines 139-140: `with ReaderThread(device, protocol_class) as protocol`
\* returns the protocol once the reader thread has called connection_made
run_L139 ==
    /\ At("run", "L139")
    /\ pc["reader"] = "reading"
    /\ Goto("run", "L141")
    /\ UNCHANGED <<evars, sub, wst, wev, wto, svars, xvars>>

\* line 141: self.protocol = protocol
run_L141 ==
    /\ At("run", "L141")
    /\ protocol' = gen
    /\ Goto("run", "L143")
    /\ UNCHANGED <<evars, sub, wst, wev, wto, gen, serialOpen, avail,
                   hasTimeout, scoped, errorCause, wres, wclosed, wout, sent, xvars>>

\* thread t, at p, is in OrEvent(..., e, ...) for combinator c of transport g:
\* orify(e, changed); `first` when e is the first source, so the new
\* threading.Event() of line 52 is made in the same step
OrifyAt(t, p, c, g, e, first, q) ==
    /\ At(t, p)
    /\ orify({e}, c, g)
    /\ flag' = IF first THEN [flag EXCEPT ![c] = FALSE] ELSE flag
    /\ cgen' = IF first THEN [cgen EXCEPT ![c] = g] ELSE cgen
    /\ Goto(t, q)
    /\ UNCHANGED <<srcs, sub, wst, wev, wto, svars, xvars>>

\* thread t, at p, ends OrEvent(...) for combinator c: changed() (line 69)
ChangedAt(t, p, c, g, q) ==
    /\ At(t, p)
    /\ sub' = [sub EXCEPT ![t] = [st |-> "read", c |-> c, g |-> g]]
    /\ Goto(t, q)
    /\ UNCHANGED <<evars, wst, wev, wto, svars, xvars>>

\* lines 143-144: connected_event = OrEvent(protocol.connected,
\*                                          self.close_request)
run_L143 ==
    \/ OrifyAt("run", "L143", "connected_event", gen, "pconnected", TRUE,
               "L143b")
    \/ OrifyAt("run", "L143b", "connected_event", gen, "close_request", FALSE,
               "L143c")
    \/ ChangedAt("run", "L143c", "connected_event", gen, "L145")

\* lines 145-146: disconnected_event = OrEvent(protocol.disconnected,
\*                                             self.close_request)
run_L145 ==
    \/ OrifyAt("run", "L145", "disconnected_event", gen, "pdisconnected", TRUE,
               "L145b")
    \/ OrifyAt("run", "L145b", "disconnected_event", gen, "close_request",
               FALSE, "L145c")
    \/ ChangedAt("run", "L145c", "disconnected_event", gen, "L149")

connect_timeout_always == hasTimeout

\* lines 149-150: the timeout of the wait for connection:
\* None if self.has_connected.is_set() else self.default_timeout_s
connect_timeout == ~flag["has_connected"] /\ hasTimeout

\* lines 149-150: connected_event.wait(...)
run_L149 == WaitAt("run", "L149", "connected_event", connect_timeout, "L149w")

\* line 151: if self.close_request.is_set()
run_L151 ==
    /\ Returned("run", "L149w")
    /\ wst' = [wst EXCEPT !["run"] = "none"]
    /\ Goto("run", IF flag["close_request"] THEN "L154" ELSE "L156")
    /\ UNCHANGED <<evars, sub, wev, wto, svars, xvars>>

\* line 154: self.closed.set(); the return of line 155 then leaves the with
run_L154 == SetAt("run", "L154", "closed", "L155")

\* line 156: self.connected.set()
run_L156 == SetAt("run", "L156", "connected", "L157")

\* line 157: self.has_connected.set()
run_L157 == SetAt("run", "L157", "has_connected", "L159")

\* line 159: disconnected_event.wait()
run_L159 == WaitAt("run", "L159", "disconnected_event", FALSE, "L159w")

\* line 160: if self.close_request.is_set()
run_L160 ==
    /\ Returned("run", "L159w")
    /\ wst' = [wst EXCEPT !["run"] = "none"]
    /\ Goto("run", IF flag["close_request"] THEN "L162" ELSE "L164")
    /\ UNCHANGED <<evars, sub, wev, wto, svars, xvars>>

\* line 162: self.closed.set(); the return of line 163 then leaves the with
run_L162 == SetAt("run", "L162", "closed", "L163")

\* line 164: self.connected.clear()
run_L164 ==
    /\ At("run", "L164")
    /\ or_clear("run", "connected")
    /\ Goto("run", "L165")
    /\ UNCHANGED <<hooked, cb, srcs, cgen, svars, xvars>>

\* a variant of leaving the with block that leaves the port open
run_exit_with_leak ==
    /\ At("run", "L155") \/ At("run", "L163") \/ At("run", "L165")
    /\ At("reader", "lost")
    /\ Goto("run", IF pc["run"] = "L165" THEN "L114" ELSE "done")
    /\ UNCHANGED <<evars, sub, wst, wev, wto, svars, xvars>>

\* leaving the with block of line 139 (by the return of line 155 or 163, or
\* at the end of the loop body, line 165): ReaderThread.close() has stopped
\* the reader thread, which has called connection_lost, and closes the port
run_exit_with ==
    /\ At("run", "L155") \/ At("run", "L163") \/ At("run", "L165")
    /\ At("reader", "lost")
    /\ serialOpen' = FALSE
    /\ Goto("run", IF pc["run"] = "L165" THEN "L114" ELSE "done")
    /\ UNCHANGED <<evars, sub, wst, wev, wto, gen, protocol, avail,
                   hasTimeout, scoped, errorCause, wres, wclosed, wout, sent, xvars>>

\* ---- EventProtocol, called by the reader thread of the transport

\* lines 22-34: the protocol of the new transport is made (its events are new
\* objects) and connection_made is called on it before any other thread can
\* reach it: self.connected.set(); self.disconnected.clear()
connection_made ==
    /\ At("reader", "start")
    /\ flag' = [flag EXCEPT !["pconnected"] = TRUE, !["pdisconnected"] = FALSE]
    /\ hooked' = [hooked EXCEPT !["pconnected"] = FALSE,
                                !["pdisconnected"] = FALSE]
    /\ cb' = [cb EXCEPT !["pconnected"] = NoCb, !["pdisconnected"] = NoCb]
    /\ Goto("reader", "reading")
    /\ UNCHANGED <<srcs, cgen, sub, wst, wev, wto, svars, xvars>>

\* the reader loop ends by an error of the read (the device is gone);
\* connection_lost is called next
reader_error ==
    /\ At("reader", "reading")
    /\ pc["run"] # "L139"
    /\ Goto("reader", "L50")
    /\ UNCHANGED <<evars, sub, wst, wev, wto, svars, xvars>>

\* the reader loop is stopped by ReaderThread.close() when run() leaves the
\* with block; connection_lost is called next
reader_stopped ==
    /\ At("reader", "reading")
    /\ pc["run"] \in {"L155", "L163", "L165"}
    /\ Goto("reader", "L50")
    /\ UNCHANGED <<evars, sub, wst, wev, wto, svars, xvars>>

connection_lost_L50_set ==
    /\ At("reader", "L50")
    /\ or_set("reader", "pdisconnected")
    /\ Goto("reader", "L51")
    /\ UNCHANGED <<hooked, cb, srcs, cgen, svars, xvars>>

\* line 50: self.connected.clear()
connection_lost_L50 ==
    /\ At("reader", "L50")
    /\ or_clear("reader", "pconnected")
    /\ Goto("reader", "L51")
    /\ UNCHANGED <<hooked, cb, srcs, cgen, svars, xvars>>

\* line 51: self.disconnected.set()
connection_lost_L51 == SetAt("reader", "L51", "pdisconnected", "lost")

\* ---- the client of the session

\* Thread.start(): run() begins
start(q) ==
    /\ At("client", "idle")
    /\ pc["run"] = "new"
    /\ pc' = [pc EXCEPT !["run"] = "L100", !["client"] = q]
    /\ UNCHANGED <<evars, sub, wst, wev, wto, svars, xvars>>

\* line 225: self.start() in __enter__
enter_L225 == scoped /\ start("L227")

\* line 227: event = OrEvent(self.connected, self.closed)
enter_L227 ==
    \/ OrifyAt("client", "L227", "enter_event", 0, "connected", TRUE, "L227b")
    \/ OrifyAt("client", "L227b", "enter_event", 0, "closed", FALSE, "L227c")
    \/ ChangedAt("client", "L227c", "enter_event", 0, "L228")

\* line 228: event.wait(self.default_timeout_s)
enter_L228 == WaitAt("client", "L228", "enter_event", hasTimeout, "L228w")

\* line 229: return self
enter_L229 ==
    /\ Returned("client", "L228w")
    /\ wst' = [wst EXCEPT !["client"] = "none"]
    /\ Goto("client", "entered")
    /\ UNCHANGED <<evars, sub, wev, wto, svars, xvars>>

\* lines 215-216: close(): self.close_request.set()
close(p, q) == SetAt("client", p, "close_request", q)

\* line 233: self.close() in __exit__
exit_L233 == close("entered", "L234")

\* the wait for closed is given a timeout
exit_L234_timeout == WaitAt("client", "L234", "closed", TRUE, "L234w")

\* line 234: self.closed.wait()
exit_L234 == WaitAt("client", "L234", "closed", FALSE, "L234w")

\* __exit__ returns
exit_return ==
    /\ Returned("client", "L234w")
    /\ wst' = [wst EXCEPT !["client"] = "none"]
    /\ Goto("client", "exited")
    /\ UNCHANGED <<evars, sub, wev, wto, svars, xvars>>

\* a client that does not use the context manager: start(), later close()
client_start == ~scoped /\ start("started")

client_close == close("started", "closing")

\* ---- write(), called once by the writer thread

\* line 183: self.connected.wait(timeout_s)
write_L183 ==
    /\ At("writer", "idle")
    /\ \E timeout \in BOOLEAN : Event_wait("writer", "connected", timeout)
    /\ Goto("writer", "L183w")
    /\ wclosed' = flag["closed"]
    /\ UNCHANGED <<evars, sub, gen, serialOpen, protocol, avail, hasTimeout,
                   scoped, errorCause, wres, wout, sent, xvars>>

\* line 184: self.protocol.transport.write(data), whatever wait() returned.
\* self.protocol is None before the first transport; the transport of a
\* closed port raises.
write_L184 ==
    /\ Returned("writer", "L183w")
    /\ wres' = wst["writer"]
    /\ wst' = [wst EXCEPT !["writer"] = "none"]
    /\ IF protocol = 0
       THEN wout' = "AttributeError" /\ sent' = sent
       ELSE IF protocol = gen /\ serialOpen
       THEN /\ wout' = "sent"
            /\ sent' = sent \cup {[g |-> protocol,
                                   alive |-> pc["reader"] = "reading"]}
       ELSE wout' = "SerialException" /\ sent' = sent
    /\ Goto("writer", "done")
    /\ UNCHANGED <<evars, sub, wev, wto, gen, serialOpen, protocol, avail,
                   hasTimeout, scoped, errorCause, wclosed, xvars>>

Next ==
    \/ DeviceAppears \/ DeviceDisappears
    \/ run_L100 \/ run_L107 \/ run_L108 \/ run_L109
    \/ run_L114 \/ run_L118 \/ run_L119 \/ run_L121
    \/ run_L127 \/ run_L127_raise \/ run_L129 \/ run_L130 \/ run_L131
    \/ run_L139 \/ run_L141 \/ run_L143 \/ run_L145 \/ run_L149 \/ run_L151
    \/ run_L154 \/ run_L156 \/ run_L157 \/ run_L159 \/ run_L160 \/ run_L162
    \/ run_L164 \/ run_exit_with
    \/ connection_made \/ reader_error \/ reader_stopped
    \/ connection_lost_L50 \/ connection_lost_L51
    \/ enter_L225 \/ enter_L227 \/ enter_L228 \/ enter_L229
    \/ exit_L233 \/ exit_L234 \/ exit_return
    \/ client_start \/ client_close
    \/ write_L183 \/ write_L184
    \/ \E t \in SThreads : WaitTimeout(t)
    \/ \E t \in SThreads : self_changed(t)
    \/ \E t \in SThreads : changed_read(t)
    \/ \E t \in SThreads : changed_write(t)

Spec == Init /\ [][Next]_vars

\* ---- the claims about the session

C2_TimedOutWriteForwardsNothing ==
    wres = "false" => sent = {}

\* close() has been called and has returned
CloseDone ==
    /\ pc["client"] \in {"closing", "L234", "L234w", "exited"}
    /\ sub["client"] = NoSub

\* C3: a close() that has returned leaves run() in no wait without timeout:
\* the wait run() is suspended in, or the next one it enters, ends.
C3_CloseObserved ==
    CloseDone => ~(wst["run"] = "blocked" /\ ~wto["run"])

\* C4 (as stated): once close is requested while run() is in the loop that
\* waits for the port to reappear, run() does not leave the loop to open it.
C4_CloseInPollLoop ==
    [][(flag["close_request"] /\ pc["run"] \in {"L114r", "L118", "L118w"})
           => pc'["run"] # "L127"]_vars

\* C4 (amended): a close requested before the poll wait of line 118 returns
\* is seen by the check of line 119: run() goes from the wait to line 121,
\* sets `closed` and ends, and opens no transport on the way.
C4_CloseInPollWait ==
    [][/\ (flag["close_request"] /\ pc["run"] \in {"L118", "L118w"})
              => (pc'["run"] \in {"L118", "L118w", "L121"} /\ gen' = gen)
       /\ pc["run"] = "L121"
              => /\ gen' = gen
                 /\ \/ pc'["run"] = "L121"
                    \/ pc'["run"] = "done" /\ flag'["closed"]]_vars

\* run() has ended from the poll loop: closed, no error, no transport opened
C4_Witness ==
    /\ pc["run"] = "done" /\ flag["closed"] /\ flag["close_request"]
    /\ gen = 0 /\ errorCause = "none"

\* no thread is inside a set()/clear() call
NoCallbacks == \A t \in SThreads : sub[t] = NoSub

\* the port was not available at the start: no transport, `error` is set
\* before `closed`, run() ends with both set
DeviceNotFound ==
    errorCause = "NameError" =>
        /\ gen = 0 /\ ~serialOpen /\ protocol = 0
        /\ pc["run"] \in {"L108", "L109", "done"}
        /\ flag["closed"] => flag["error"]
        /\ pc["run"] = "done" => flag["closed"]

\* a caller of __enter__ is not left in a wait without timeout
WaiterReleased ==
    (errorCause = "NameError" /\ pc["run"] = "done" /\ NoCallbacks) =>
        ~(pc["client"] = "L228w" /\ wst["client"] = "blocked"
          /\ ~wto["client"])

\* C5: when the port is not available at the start, run() opens no
\* transport, sets `error` (NameError) and then `closed` and ends, and the
\* caller waiting on connected-or-closed is released.
C5_DeviceNotFound ==
    DeviceNotFound /\ WaiterReleased

ExitAfterClosed ==
    (pc["client"] = "L234w" /\ pc'["client"] = "exited") =>
        (flag["close_request"] /\ flag["closed"])

None == -1

\* values of the timeout_s argument
Timeouts == {None} \cup (0..MaxTimeout)

\* Clock readings and timeouts are compared in half time units: a timeout is
\* a whole number of units, a reading of the clock falls strictly between
\* two whole units, `now` units after time 0.
total_seconds(c) == 2 * (now - req[c].start) + 1

ReqGoto(c, p) == req' = [req EXCEPT ![c].pc = p]

\* line 261: device.write(payload), for a device whose write() returns
request_L261(c) ==
    /\ req[c].pc = "L261"
    /\ tx' = Append(tx, c)
    /\ ReqGoto(c, IF req[c].poll THEN "L264" ELSE "L272")
    /\ UNCHANGED <<evars, tvars, svars, now, response_queue, pushed, mvars>>

\* line 264: start = dt.datetime.now()
request_L264(c) ==
    /\ req[c].pc = "L264"
    /\ req' = [req EXCEPT ![c].pc = "L265", ![c].start = now]
    /\ UNCHANGED <<evars, tvars, svars, now, response_queue, pushed, tx, mvars>>

\* line 265: while not response_queue.qsize()
request_L265(c) ==
    /\ req[c].pc = "L265"
    /\ ReqGoto(c, IF Len(response_queue[c]) = 0 THEN "L266" ELSE "L268")
    /\ UNCHANGED <<evars, tvars, svars, now, response_queue, pushed, tx, mvars>>

\* line 266: (dt.datetime.now() - start).total_seconds() > timeout_s;
\* comparing a float with None raises TypeError (Python 3) or is true
\* (Python 2)
timed_out(c) ==
    IF req[c].timeout_s = None THEN {"TypeError", "Empty"}
    ELSE IF total_seconds(c) > 2 * req[c].timeout_s THEN {"Empty"}
    ELSE {}

\* lines 266-267: raise queue.Empty('No response received.'), or go round
request_L266(c) ==
    /\ req[c].pc = "L266"
    /\ IF timed_out(c) = {}
       THEN ReqGoto(c, "L265")
       ELSE \E x \in timed_out(c) :
                req' = [req EXCEPT ![c].pc = "raised", ![c].result = x]
    /\ UNCHANGED <<evars, tvars, svars, now, response_queue, pushed, tx, mvars>>

\* the first item is returned and left in the queue
request_L268_peek(c) ==
    /\ req[c].pc = "L268"
    /\ Len(response_queue[c]) > 0
    /\ req' = [req EXCEPT ![c].pc = "returned",
                          ![c].result = Head(response_queue[c])]
    /\ UNCHANGED <<evars, tvars, svars, now, response_queue, pushed, tx, mvars>>

\* line 268: return response_queue.get()
request_L268(c) ==
    /\ req[c].pc = "L268"
    /\ Len(response_queue[c]) > 0
    /\ req' = [req EXCEPT ![c].pc = "returned",
                          ![c].result = Head(response_queue[c])]
    /\ response_queue' = [response_queue EXCEPT ![c] = Tail(@)]
    /\ UNCHANGED <<evars, tvars, svars, now, pushed, tx, mvars>>

\* line 272: response_queue.get(timeout=timeout_s) is entered:
\* endtime = time() + timeout
request_L272(c) ==
    /\ req[c].pc = "L272"
    /\ req' = [req EXCEPT ![c].pc = "L272w", ![c].start = now]
    /\ UNCHANGED <<evars, tvars, svars, now, response_queue, pushed, tx, mvars>>

\* Queue.get: remaining = endtime - time() <= 0, for a timeout that is given
get_expired(c) ==
    /\ req[c].timeout_s # None
    /\ 2 * req[c].timeout_s - total_seconds(c) <= 0

\* line 272: Queue.get(timeout) returns the first item, or raises Empty when
\* the queue is empty and the time is up, or goes on waiting
request_L272_get(c) ==
    /\ req[c].pc = "L272w"
    /\ IF Len(response_queue[c]) > 0
       THEN /\ req' = [req EXCEPT ![c].pc = "returned",
                                  ![c].result = Head(response_queue[c])]
            /\ response_queue' = [response_queue EXCEPT ![c] = Tail(@)]
       ELSE /\ get_expired(c)
            /\ req' = [req EXCEPT ![c].pc = "raised", ![c].result = "Empty"]
            /\ UNCHANGED response_queue
    /\ UNCHANGED <<evars, tvars, svars, now, pushed, tx, mvars>>

\* the call of caller c has ended, or waits and nothing it can see has
\* changed since it looked last
Settled(c) ==
    \/ req[c].pc \in {"returned", "raised"}
    \/ /\ req[c].pc = "L265"
       /\ Len(response_queue[c]) = 0 /\ timed_out(c) = {}
    \/ /\ req[c].pc = "L272w"
       /\ Len(response_queue[c]) = 0 /\ ~get_expired(c)

\* ---- the two disciplines of request() in the same timing scenario

\* one caller polls, the other blocks in Queue.get
Disciplines == {"poll", "get"}

Items == {"r1", "r2"}

\* the same timeout and the same queue content for both callers
PollInit ==
    /\ flag = <<>> /\ hooked = <<>> /\ cb = <<>> /\ srcs = <<>> /\ cgen = <<>>
    /\ pc = <<>> /\ sub = <<>> /\ wst = <<>> /\ wev = <<>> /\ wto = <<>>
    /\ gen = 0 /\ serialOpen = FALSE /\ protocol = 0 /\ avail = FALSE
    /\ hasTimeout = FALSE /\ scoped = FALSE /\ errorCause = "none"
    /\ wres = "none" /\ wclosed = FALSE /\ wout = "none" /\ sent = {}
    /\ now = 0 /\ pushed = 0 /\ tx = <<>>
    /\ NoManager
    /\ \E t \in Timeouts :
           req = [c \in Disciplines |->
                     [pc |-> "L261", poll |-> (c = "poll"), timeout_s |-> t,
                      start |-> 0, result |-> "none"]]
    /\ \E q \in {<<>>} \cup {<<i>> : i \in Items} :
           response_queue = [c \in Disciplines |-> q]

\* the reader thread puts a response: both callers are given the same item
\* at the same time
put(i) ==
    /\ pushed < MaxResponses
    /\ \A c \in Disciplines : Settled(c)
    /\ pushed' = pushed + 1
    /\ response_queue' = [c \in Disciplines |-> Append(response_queue[c], i)]
    /\ UNCHANGED <<evars, tvars, svars, now, req, tx, mvars>>

\* one time unit passes once both callers have looked at the queue and the
\* clock
Tick ==
    /\ now < MaxTime
    /\ \A c \in Disciplines : Settled(c)
    /\ now' = now + 1
    /\ UNCHANGED <<evars, tvars, svars, req, response_queue, pushed, tx, mvars>>

PollNext ==
    \/ \E c \in Disciplines : request_L261(c)
    \/ \E c \in Disciplines : request_L264(c)
    \/ \E c \in Disciplines : request_L265(c)
    \/ \E c \in Disciplines : request_L266(c)
    \/ \E c \in Disciplines : request_L268(c)
    \/ \E c \in Disciplines : request_L272(c)
    \/ \E c \in Disciplines : request_L272_get(c)
    \/ \E i \in Items : put(i)
    \/ Tick

SpecPoll == PollInit /\ [][PollNext]_vars

\* C11: in the same timing scenario request() with poll and request()
\* without poll end the same way: the same item, the same error, or both go
\* on waiting.
C11_SameOutcome ==
    (\A c \in Disciplines : Settled(c)) =>
        req["poll"].result = req["get"].result

\* ---- KeepAliveReader.request: calls made one after another on one queue

Caller == "caller"

\* the caller is in no call
Idle(c) == req[c].pc \in {"idle", "returned", "raised"}

\* an item names the number of payloads written when it was put
Item(k) == ToString(k)

Written(i) == CHOOSE k \in 0..(MaxRequests + 1) : Item(k) = i

ReqInit ==
    /\ flag = [e \in {"connected"} |-> FALSE]
    /\ hooked = [e \in {"connected"} |-> FALSE]
    /\ cb = [e \in {"connected"} |-> NoCb]
    /\ srcs = <<>> /\ cgen = <<>> /\ pc = <<>>
    /\ sub = [t \in {Caller} |-> NoSub]
    /\ wst = [t \in {Caller} |-> "none"]
    /\ wev = [t \in {Caller} |-> "none"]
    /\ wto = [t \in {Caller} |-> FALSE]
    /\ gen = 0 /\ serialOpen = FALSE /\ protocol = 0 /\ avail = FALSE
    /\ hasTimeout = FALSE /\ scoped = FALSE /\ errorCause = "none"
    /\ wres = "none" /\ wclosed = FALSE /\ wout = "none" /\ sent = {}
    /\ now = 0 /\ pushed = 0 /\ tx = <<>>
    /\ NoManager
    /\ req = [c \in {Caller} |->
                 [pc |-> "idle", poll |-> FALSE, timeout_s |-> None,
                  start |-> 0, result |-> "none", n |-> 0, tx0 |-> 0,
                  taken0 |-> 0]]
    /\ response_queue = [c \in {Caller} |-> <<>>]

\* lines 186-187: request(response_queue, payload, timeout_s, poll) is called
request_call(c, t, p) ==
    /\ Idle(c)
    /\ req[c].n < MaxRequests
    /\ req' = [req EXCEPT ![c] =
                  [pc |-> "L211", poll |-> p, timeout_s |-> t, start |-> now,
                   result |-> "none", n |-> req[c].n + 1, tx0 |-> Len(tx),
                   taken0 |-> pushed - Len(response_queue[c])]]
    /\ wst' = [wst EXCEPT ![c] = "none"]
    /\ UNCHANGED <<evars, pc, sub, wev, wto, svars, now, response_queue,
                   pushed, tx, mvars>>

\* line 211: self.connected.wait(timeout_s)
request_L211(c) ==
    /\ req[c].pc = "L211"
    /\ Event_wait(c, "connected", req[c].timeout_s # None)
    /\ ReqGoto(c, "L211w")
    /\ UNCHANGED <<evars, pc, sub, svars, now, response_queue, pushed, tx, mvars>>

\* lines 212-213, 261: request(self, ...) is called and calls
\* device.write(payload), whatever wait() returned
request_L212(c) ==
    /\ req[c].pc = "L211w"
    /\ wst[c] \in {"true", "false"}
    /\ wst' = [wst EXCEPT ![c] = "none"]
    /\ ReqGoto(c, "L183")
    /\ UNCHANGED <<evars, pc, sub, wev, wto, svars, now, response_queue,
                   pushed, tx, mvars>>

\* line 183, in the write() called by request(): self.connected.wait(timeout_s)
request_write_L183(c) ==
    /\ req[c].pc = "L183"
    /\ Event_wait(c, "connected", req[c].timeout_s # None)
    /\ ReqGoto(c, "L183w")
    /\ UNCHANGED <<evars, pc, sub, svars, now, response_queue, pushed, tx, mvars>>

\* line 184: self.protocol.transport.write(data), whatever wait() returned;
\* then line 262: if poll
request_write_L184(c) ==
    /\ req[c].pc = "L183w"
    /\ wst[c] \in {"true", "false"}
    /\ wst' = [wst EXCEPT ![c] = "none"]
    /\ IF protocol = 0
       THEN /\ req' = [req EXCEPT ![c].pc = "raised",
                                  ![c].result = "AttributeError"]
            /\ tx' = tx
       ELSE IF serialOpen
       THEN /\ tx' = Append(tx, c)
            /\ ReqGoto(c, IF req[c].poll THEN "L264" ELSE "L272")
       ELSE /\ req' = [req EXCEPT ![c].pc = "raised",
                                  ![c].result = "SerialException"]
            /\ tx' = tx
    /\ UNCHANGED <<evars, pc, sub, wev, wto, svars, now, response_queue,
                   pushed, mvars>>

\* ---- the session and the device, as the caller of request() sees them

\* threaded.py line 141: a transport is open and self.protocol is set
session_L141 ==
    /\ ~serialOpen
    /\ serialOpen' = TRUE
    /\ protocol' = 1
    /\ UNCHANGED <<evars, tvars, gen, avail, hasTimeout, scoped, errorCause,
                   wres, wclosed, wout, sent, rvars, mvars>>

\* threaded.py line 156: self.connected.set()
session_L156 ==
    /\ protocol = 1
    /\ ~flag["connected"]
    /\ Event_set("connected")
    /\ UNCHANGED <<hooked, cb, srcs, cgen, pc, sub, svars, rvars, mvars>>

\* the transport is lost or closed
session_lost ==
    /\ serialOpen
    /\ serialOpen' = FALSE
    /\ UNCHANGED <<evars, tvars, gen, protocol, avail, hasTimeout, scoped,
                   errorCause, wres, wclosed, wout, sent, rvars, mvars>>

\* threaded.py line 164: self.connected.clear()
session_L164 ==
    /\ flag["connected"]
    /\ ~serialOpen
    /\ Event_clear("connected")
    /\ UNCHANGED <<hooked, cb, srcs, cgen, pc, sub, svars, rvars, mvars>>

\* the device answers a payload it was sent: the reader thread puts the
\* response into the queue
respond(c) ==
    /\ pushed < Len(tx)
    /\ pushed' = pushed + 1
    /\ response_queue' = [response_queue EXCEPT ![c] = Append(@, Item(Len(tx)))]
    /\ UNCHANGED <<evars, tvars, svars, now, req, tx, mvars>>

\* one time unit passes
ClockTick ==
    /\ now < MaxTime
    /\ now' = now + 1
    /\ UNCHANGED <<evars, tvars, svars, req, response_queue, pushed, tx, mvars>>

ReqNext ==
    \/ \E t \in Timeouts, p \in BOOLEAN : request_call(Caller, t, p)
    \/ request_L211(Caller) \/ request_L212(Caller)
    \/ request_write_L183(Caller) \/ request_write_L184(Caller)
    \/ request_L264(Caller) \/ request_L265(Caller) \/ request_L266(Caller)
    \/ request_L268(Caller)
    \/ request_L272(Caller) \/ request_L272_get(Caller)
    \/ WaitTimeout(Caller)
    \/ session_L141 \/ session_L156 \/ session_lost \/ session_L164
    \/ respond(Caller)
    \/ ClockTick

SpecReq == ReqInit /\ [][ReqNext]_vars

\* payloads the current call has written
wrote(c) == Len(tx) - req[c].tx0

\* items the current call has removed from the queue
taken(c) == (pushed - Len(response_queue[c])) - req[c].taken0

\* the current call has got as far as looking at the queue
Retrieving(c) ==
    \/ req[c].pc \in {"L264", "L265", "L266", "L268", "L272", "L272w",
                      "returned"}
    \/ req[c].pc = "raised" /\ req[c].result \in {"Empty", "TypeError"}

\* C12: a request() call writes the payload at most once, after its waits
\* for `connected`, and looks at the queue only after exactly one write; a
\* call that returns has removed exactly one item, a call that raises has
\* removed none.
C12_WriteOnceThenRetrieve ==
    [][/\ wrote(Caller)' \in {0, 1}
       /\ Len(tx') > Len(tx) =>
              (req[Caller].pc = "L183w" /\ wst[Caller] \in {"true", "false"})
       /\ Retrieving(Caller)' => wrote(Caller)' = 1
       /\ req'[Caller].pc = "returned" => taken(Caller)' = 1
       /\ req'[Caller].pc # "returned" => taken(Caller)' = 0]_vars

\* the second call, a polling one, has written once and returned an item
C12_Witness ==
    /\ req[Caller].n = 2 /\ req[Caller].pc = "returned" /\ req[Caller].poll
    /\ wrote(Caller) = 1 /\ taken(Caller) = 1

\* C13: with calls made one after another, the item a call returns was put
\* into the queue after that call wrote its payload.
C13_NoStaleResponse ==
    req[Caller].pc = "returned" =>
        Written(req[Caller].result) > req[Caller].tx0

\* ------------------------------------------- mqtt.py: SerialDeviceManager

Ports == {"A", "B"}

\* the ReaderThread objects: the k-th transport opened for a port
Transports == Ports \X (1..MaxConnects)

\* the thread of the MQTT client that runs on_message, the thread that runs
\* __exit__, and the reader thread of every transport
Handler == <<"handler", 0>>
Main == <<"main", 0>>
MThreads == {Handler, Main} \cup Transports

\* connect requests: a valid one, and one for every parameter that
\* lines 231-271 reject
ValidRequests == {"c1"}
InvalidRequests == {"no_baudrate", "bad_bytesize", "bad_parity",
                    "bad_stopbits"}

NoOut == [kind |-> "none", port |-> "none", v |-> "none"]

ThreadAt(p) ==
    [pc |-> p, port |-> "none", val |-> "none", ret |-> "none", k |-> 0,
     cmd |-> "none", req |-> "none", todo |-> {}]

\* thread t goes on at p; what it keeps is the command it handles and the
\* ports still to visit
Resume(t, p) ==
    IF p = "idle" THEN ThreadAt("idle")
    ELSE [ThreadAt(p) EXCEPT !.cmd = th[t].cmd, !.todo = th[t].todo]

MqttInit ==
    /\ flag = <<>> /\ hooked = <<>> /\ cb = <<>> /\ srcs = <<>> /\ cgen = <<>>
    /\ pc = <<>> /\ sub = <<>> /\ wst = <<>> /\ wev = <<>> /\ wto = <<>>
    /\ gen = 0 /\ serialOpen = FALSE /\ protocol = 0 /\ avail = FALSE
    /\ hasTimeout = FALSE /\ scoped = FALSE /\ errorCause = "none"
    /\ wres = "none" /\ wclosed = FALSE /\ wout = "none" /\ sent = {}
    /\ now = 0 /\ req = <<>> /\ response_queue = <<>>
    /\ pushed = 0 /\ tx = <<>>
    /\ open_devices = [p \in Ports |-> 0]
    /\ transport = [x \in Transports |->
                       [serial |-> "none", cfg |-> "none", alive |-> FALSE]]
    /\ opened = [p \in Ports |-> 0]
    /\ th = [t \in MThreads |->
                IF t = Handler THEN ThreadAt("idle")
                ELSE IF t = Main THEN [ThreadAt("running") EXCEPT
                                           !.cmd = "exit"]
                ELSE ThreadAt("none")]
    /\ status = [p \in Ports |-> "none"]
    /\ out = NoOut

\* thread t, handling command c, calls self._publish_status(p) and goes on
\* at r afterwards
Call_publish_status(t, c, p, r) ==
    [th[t] EXCEPT !.pc = "L151", !.port = p, !.ret = r, !.cmd = c]

\* line 151: if port not in self.open_devices: status = {}
publish_status_L151(t) ==
    /\ th[t].pc = "L151"
    /\ th' = IF open_devices[th[t].port] = 0
             THEN [th EXCEPT ![t].pc = "L158", ![t].val = "{}"]
             ELSE [th EXCEPT ![t].pc = "L153"]
    /\ out' = NoOut
    /\ UNCHANGED <<evars, tvars, svars, rvars, open_devices, transport,
                   opened, status>>

\* lines 153-156: device = self.open_devices[port].serial; the status is
\* made of the settings of the device.  KeyError when the entry is gone.
publish_status_L153(t) ==
    /\ th[t].pc = "L153"
    /\ IF open_devices[th[t].port] = 0
       THEN /\ th' = [th EXCEPT ![t] = Resume(t, "KeyError")]
            /\ out' = [kind |-> "KeyError", port |-> th[t].port, v |-> t[1]]
       ELSE /\ th' = [th EXCEPT ![t].pc = "L158",
                        ![t].val = transport[<<th[t].port,
                                       open_devices[th[t].port]>>].cfg]
            /\ out' = NoOut
    /\ UNCHANGED <<evars, tvars, svars, rvars, open_devices, transport,
                   opened, status>>

\* lines 157-160: self.mqtt_client.publish(topic=..., payload=status_json,
\* retain=True)
publish_status_L158(t) ==
    /\ th[t].pc = "L158"
    /\ status' = [status EXCEPT ![th[t].port] = th[t].val]
    /\ out' = [kind |-> "status", port |-> th[t].port, v |-> th[t].val]
    /\ th' = [th EXCEPT ![t] = Resume(t, th[t].ret)]
    /\ UNCHANGED <<evars, tvars, svars, rvars, open_devices, transport,
                   opened>>

\* ---- the reader thread of a transport (serial.threaded.ReaderThread.run)

\* lines 297-300: connection_made: parent.open_devices[port] = transport;
\* parent._publish_status(self.PORT); the read loop follows
PassThroughProtocol_connection_made(x) ==
    /\ th[x].pc = "start"
    /\ open_devices' = [open_devices EXCEPT ![x[1]] = x[2]]
    /\ th' = [th EXCEPT ![x] = Call_publish_status(x, "made", x[1],
                                                    "reading")]
    /\ out' = NoOut
    /\ UNCHANGED <<evars, tvars, svars, rvars, transport, opened, status>>

\* lines 302-305: data_received: the data is published
PassThroughProtocol_data_received(x) ==
    /\ th[x].pc = "reading"
    /\ transport[x].alive /\ transport[x].serial = "open"
    /\ out' = [kind |-> "received", port |-> x[1], v |-> "data"]
    /\ UNCHANGED <<evars, tvars, svars, rvars, open_devices, transport,
                   opened, th, status>>

\* ReaderThread.run: the loop ends, because stop() cleared `alive`, the port
\* was closed or the read failed; connection_lost is called next
ReaderThread_run_exit(x) ==
    /\ th[x].pc = "reading"
    /\ transport' = [transport EXCEPT ![x].alive = FALSE]
    /\ th' = [th EXCEPT ![x].pc = "L314"]
    /\ out' = NoOut
    /\ UNCHANGED <<evars, tvars, svars, rvars, open_devices, opened, status>>

\* a variant of lines 314-315 that empties the registry
PassThroughProtocol_connection_lost_clear(x) ==
    /\ th[x].pc = "L314"
    /\ open_devices' = [p \in Ports |-> 0]
    /\ th' = [th EXCEPT ![x] = Call_publish_status(x, "lost", x[1], "dead")]
    /\ out' = NoOut
    /\ UNCHANGED <<evars, tvars, svars, rvars, transport, opened, status>>

\* lines 314-315: connection_lost: del parent.open_devices[self.PORT];
\* parent._publish_status(self.PORT)
PassThroughProtocol_connection_lost(x) ==
    /\ th[x].pc = "L314"
    /\ IF open_devices[x[1]] = 0
       THEN /\ th' = [th EXCEPT ![x] = ThreadAt("KeyError")]
            /\ out' = [kind |-> "KeyError", port |-> x[1], v |-> x[1]]
            /\ UNCHANGED open_devices
       ELSE /\ open_devices' = [open_devices EXCEPT ![x[1]] = 0]
            /\ th' = [th EXCEPT ![x] = Call_publish_status(x, "lost", x[1],
                                                            "dead")]
            /\ out' = NoOut
    /\ UNCHANGED <<evars, tvars, svars, rvars, transport, opened, status>>

\* ---- the commands, handled one at a time by on_message (lines 107-138)

\* the MQTT loop runs until stop() (line 356)
Listening == th[Handler].pc = "idle" /\ th[Main].pc # "stopped"

\* the transports opened so far
Opened == {x \in Transports : transport[x].serial # "none"}

\* lines 224-228: connect: if port in self.open_devices:
\* self._publish_status(port); return
serial_connect_L225(p, r) ==
    /\ Listening
    /\ open_devices[p] # 0
    /\ th' = [th EXCEPT ![Handler] =
                 [Call_publish_status(Handler, "connect", p, "idle")
                      EXCEPT !.req = r]]
    /\ out' = NoOut
    /\ UNCHANGED <<evars, tvars, svars, rvars, open_devices, transport,
                   opened, status>>

\* a variant of lines 231-271: the invalid request is dropped, and the
\* status of the port published
serial_connect_L231_publish(p, r) ==
    /\ Listening
    /\ open_devices[p] = 0
    /\ th' = [th EXCEPT ![Handler] =
                 [Call_publish_status(Handler, "connect", p, "idle")
                      EXCEPT !.req = r]]
    /\ out' = NoOut
    /\ UNCHANGED <<evars, tvars, svars, rvars, open_devices, transport,
                   opened, status>>

\* lines 231-271: the port is not registered and the request is invalid:
\* the error is logged, the request dropped
serial_connect_L231(p, r) ==
    /\ Listening
    /\ open_devices[p] = 0
    /\ out' = [kind |-> "rejected", port |-> p, v |-> "connect"]
    /\ UNCHANGED <<evars, tvars, svars, rvars, open_devices, transport,
                   opened, th, status>>

\* lines 283-320: the port is not registered and the request is valid:
\* serial.serial_for_url(port, ...) opens the port and the ReaderThread of
\* the new transport is started
serial_connect_L284(p, r) ==
    /\ Listening
    /\ open_devices[p] = 0
    /\ Cardinality(Opened) < MaxConnects
    /\ LET k == opened[p] + 1
       IN /\ opened' = [opened EXCEPT ![p] = k]
          /\ transport' = [transport EXCEPT ![<<p, k>>] =
                              [serial |-> "open", cfg |-> r, alive |-> TRUE]]
          /\ th' = [th EXCEPT ![Handler] =
                       [ThreadAt("L321") EXCEPT !.port = p, !.k = k,
                                                !.cmd = "connect", !.req = r],
                              ![<<p, k>>].pc = "start"]
    /\ out' = NoOut
    /\ UNCHANGED <<evars, tvars, svars, rvars, open_devices, status>>

\* lines 283-286 and 322-324: serial_for_url raises; the exception is logged
serial_connect_L284_raise(p, r) ==
    /\ Listening
    /\ open_devices[p] = 0
    /\ out' = [kind |-> "error", port |-> p, v |-> "connect"]
    /\ UNCHANGED <<evars, tvars, svars, rvars, open_devices, transport,
                   opened, th, status>>

\* ReaderThread._connection_made is set: connection_made has returned
ConnectionMade(x) ==
    \/ th[x].pc \in {"reading", "L314", "dead", "KeyError"}
    \/ th[x].ret = "dead"

\* line 321: reader_thread.connect() returns, or raises RuntimeError when
\* the connection is already lost; the exception is logged (lines 322-324)
serial_connect_L321 ==
    /\ th[Handler].pc = "L321"
    /\ ConnectionMade(<<th[Handler].port, th[Handler].k>>)
    /\ th' = [th EXCEPT ![Handler] = ThreadAt("idle")]
    /\ out' = NoOut
    /\ UNCHANGED <<evars, tvars, svars, rvars, open_devices, transport,
                   opened, status>>

\* a variant of lines 338-341 without the membership test
serial_send_L338_nocheck(p) ==
    /\ Listening
    /\ th' = [th EXCEPT ![Handler] =
                 [ThreadAt("L344") EXCEPT !.port = p, !.cmd = "send"]]
    /\ out' = NoOut
    /\ UNCHANGED <<evars, tvars, svars, rvars, open_devices, transport,
                   opened, status>>

\* lines 338-341: send: if port not in self.open_devices:
\* self._publish_status(port)
serial_send_L338(p) ==
    /\ Listening
    /\ th' = [th EXCEPT ![Handler] =
                 IF open_devices[p] = 0
                 THEN Call_publish_status(Handler, "send", p, "idle")
                 ELSE [ThreadAt("L344") EXCEPT !.port = p, !.cmd = "send"]]
    /\ out' = NoOut
    /\ UNCHANGED <<evars, tvars, svars, rvars, open_devices, transport,
                   opened, status>>

\* line 344: device = self.open_devices[port]; a KeyError is logged
\* (lines 346-347)
serial_send_L344 ==
    /\ th[Handler].pc = "L344"
    /\ IF open_devices[th[Handler].port] = 0
       THEN /\ th' = [th EXCEPT ![Handler] = ThreadAt("idle")]
            /\ out' = [kind |-> "error", port |-> th[Handler].port,
                       v |-> "send"]
       ELSE /\ th' = [th EXCEPT ![Handler].pc = "L345",
                        ![Handler].k = open_devices[th[Handler].port]]
            /\ out' = NoOut
    /\ UNCHANGED <<evars, tvars, svars, rvars, open_devices, transport,
                   opened, status>>

\* some thread is inside ReaderThread.close() of transport x, holding its lock
Closing(x) ==
    \E t \in {Handler, Main} :
        /\ th[t].pc = "close_join"
        /\ <<th[t].port, th[t].k>> = x

\* line 345: device.write(payload): written to the open port
serial_send_L345 ==
    /\ th[Handler].pc = "L345"
    /\ LET x == <<th[Handler].port, th[Handler].k>>
       IN /\ ~Closing(x)
          /\ transport[x].serial = "open"
          /\ out' = [kind |-> "write", port |-> x[1], v |-> ToString(x[2])]
    /\ th' = [th EXCEPT ![Handler] = ThreadAt("idle")]
    /\ UNCHANGED <<evars, tvars, svars, rvars, open_devices, transport,
                   opened, status>>

\* lines 345-347: device.write(payload) raises (the port is closed, or the
\* device is gone); the exception is logged
serial_send_L345_raise ==
    /\ th[Handler].pc = "L345"
    /\ ~Closing(<<th[Handler].port, th[Handler].k>>)
    /\ out' = [kind |-> "error", port |-> th[Handler].port, v |-> "send"]
    /\ th' = [th EXCEPT ![Handler] = ThreadAt("idle")]
    /\ UNCHANGED <<evars, tvars, svars, rvars, open_devices, transport,
                   opened, status>>

\* where _serial_close returns to: on_message, or the loop of __exit__
Return(t) == IF t = Handler THEN "idle" ELSE "L354"

\* thread t calls self._publish_status(p) from _serial_close, or goes on
\* to close the transport.  lines 170, 176-179: if port in self.open_devices
\* ... else: self._publish_status(port); return
serial_close_L170(t, p) ==
    IF open_devices[p] = 0
    THEN [Call_publish_status(t, IF t = Handler THEN "close" ELSE "exit",
                              p, Return(t))
              EXCEPT !.todo = th[t].todo \ {p}]
    ELSE [ThreadAt("L172") EXCEPT !.port = p,
                                  !.cmd = IF t = Handler THEN "close"
                                          ELSE "exit",
                                  !.todo = th[t].todo \ {p}]

\* lines 135-136: close: self._serial_close(port)
on_message_close(p) ==
    /\ Listening
    /\ th' = [th EXCEPT ![Handler] = serial_close_L170(Handler, p)]
    /\ out' = NoOut
    /\ UNCHANGED <<evars, tvars, svars, rvars, open_devices, transport,
                   opened, status>>

\* line 172: self.open_devices[port].close(): the entry is looked up, a
\* KeyError is logged (lines 173-175); ReaderThread.close() takes the lock
\* and stop() clears `alive`
serial_close_L172(t) ==
    /\ th[t].pc = "L172"
    /\ IF open_devices[th[t].port] = 0
       THEN /\ th' = [th EXCEPT ![t] = Resume(t, Return(t))]
            /\ out' = [kind |-> "error", port |-> th[t].port, v |-> "close"]
            /\ UNCHANGED transport
       ELSE LET x == <<th[t].port, open_devices[th[t].port]>>
            IN /\ ~Closing(x)
               /\ transport' = [transport EXCEPT ![x].alive = FALSE]
               /\ th' = [th EXCEPT ![t].pc = "close_join", ![t].k = x[2]]
               /\ out' = NoOut
    /\ UNCHANGED <<evars, tvars, svars, rvars, open_devices, opened, status>>

\* the thread of transport x has ended
Ended(x) == th[x].pc \in {"dead", "KeyError"}

\* ReaderThread.close(): self.thread.join(2) returns because the thread has
\* ended; then self.serial.close()
ReaderThread_close_join(t) ==
    /\ th[t].pc = "close_join"
    /\ Ended(<<th[t].port, th[t].k>>)
    /\ transport' = [transport EXCEPT
                        ![<<th[t].port, th[t].k>>].serial = "closed"]
    /\ th' = [th EXCEPT ![t] = Resume(t, Return(t))]
    /\ out' = NoOut
    /\ UNCHANGED <<evars, tvars, svars, rvars, open_devices, opened, status>>

\* ReaderThread.close(): self.thread.join(2) returns after two seconds with
\* the thread still running; then self.serial.close()
ReaderThread_close_join_timeout(t) ==
    /\ th[t].pc = "close_join"
    /\ ~Ended(<<th[t].port, th[t].k>>)
    /\ transport' = [transport EXCEPT
                        ![<<th[t].port, th[t].k>>].serial = "closed"]
    /\ th' = [th EXCEPT ![t] = Resume(t, Return(t))]
    /\ out' = NoOut
    /\ UNCHANGED <<evars, tvars, svars, rvars, open_devices, opened, status>>

\* lines 137-138 and 41-52: refresh: refresh_comports publishes the status
\* of every port
on_message_refresh ==
    /\ Listening
    /\ th' = [th EXCEPT ![Handler] =
                 [ThreadAt("L50") EXCEPT !.cmd = "refresh", !.todo = Ports]]
    /\ out' = NoOut
    /\ UNCHANGED <<evars, tvars, svars, rvars, open_devices, transport,
                   opened, status>>

\* lines 50-51: for port_i in ...: self._publish_status(port_i)
refresh_comports_L50 ==
    /\ th[Handler].pc = "L50"
    /\ IF th[Handler].todo = {}
       THEN th' = [th EXCEPT ![Handler] = ThreadAt("idle")]
       ELSE \E p \in th[Handler].todo :
                th' = [th EXCEPT ![Handler] =
                          [Call_publish_status(Handler, "refresh", p, "L50")
                               EXCEPT !.todo = @ \ {p}]]
    /\ out' = NoOut
    /\ UNCHANGED <<evars, tvars, svars, rvars, open_devices, transport,
                   opened, status>>

\* an exception that leaves on_message: the callback is over
on_message_KeyError ==
    /\ th[Handler].pc = "KeyError"
    /\ th' = [th EXCEPT ![Handler] = ThreadAt("idle")]
    /\ out' = NoOut
    /\ UNCHANGED <<evars, tvars, svars, rvars, open_devices, transport,
                   opened, status>>

\* line 354: for port_i in self.open_devices.keys(): the keys are listed
exit_L354 ==
    /\ th[Main].pc = "running"
    /\ th' = [th EXCEPT ![Main].pc = "L354",
                        ![Main].todo = {p \in Ports : open_devices[p] # 0}]
    /\ out' = NoOut
    /\ UNCHANGED <<evars, tvars, svars, rvars, open_devices, transport,
                   opened, status>>

\* line 355: self._serial_close(port_i) for the next listed port
exit_L355 ==
    /\ th[Main].pc = "L354"
    /\ IF th[Main].todo = {}
       THEN th' = [th EXCEPT ![Main] = Resume(Main, "L356")]
       ELSE \E p \in th[Main].todo :
                th' = [th EXCEPT ![Main] = serial_close_L170(Main, p)]
    /\ out' = NoOut
    /\ UNCHANGED <<evars, tvars, svars, rvars, open_devices, transport,
                   opened, status>>

\* line 356: super().stop(): the MQTT loop ends once the current callback
\* is over
exit_L356 ==
    /\ th[Main].pc = "L356"
    /\ th[Handler].pc = "idle"
    /\ th' = [th EXCEPT ![Main] = Resume(Main, "stopped")]
    /\ out' = NoOut
    /\ UNCHANGED <<evars, tvars, svars, rvars, open_devices, transport,
                   opened, status>>

MqttNext ==
    \/ \E p \in Ports, r \in ValidRequests \cup InvalidRequests :
           serial_connect_L225(p, r)
    \/ \E p \in Ports, r \in InvalidRequests : serial_connect_L231(p, r)
    \/ \E p \in Ports, r \in ValidRequests : serial_connect_L284(p, r)
    \/ \E p \in Ports, r \in ValidRequests : serial_connect_L284_raise(p, r)
    \/ serial_connect_L321
    \/ \E p \in Ports : serial_send_L338(p)
    \/ serial_send_L344
    \/ serial_send_L345
    \/ serial_send_L345_raise
    \/ \E p \in Ports : on_message_close(p)
    \/ \E t \in {Handler, Main} : serial_close_L172(t)
    \/ \E t \in {Handler, Main} : ReaderThread_close_join(t)
    \/ \E t \in {Handler, Main} : ReaderThread_close_join_timeout(t)
    \/ on_message_refresh
    \/ refresh_comports_L50
    \/ on_message_KeyError
    \/ \E t \in MThreads : publish_status_L151(t)
    \/ \E t \in MThreads : publish_status_L153(t)
    \/ \E t \in MThreads : publish_status_L158(t)
    \/ \E x \in Transports : PassThroughProtocol_connection_made(x)
    \/ \E x \in Transports : PassThroughProtocol_data_received(x)
    \/ \E x \in Transports : ReaderThread_run_exit(x)
    \/ \E x \in Transports : PassThroughProtocol_connection_lost(x)
    \/ exit_L354
    \/ exit_L355
    \/ exit_L356

SpecMqtt == MqttInit /\ [][MqttNext]_vars

\* ---- claims about the manager

\* the handler thread is inside _publish_status for command c
Publishing(c) ==
    /\ th[Handler].cmd = c
    /\ th[Handler].pc \in {"L151", "L153", "L158"}

\* the handler thread takes the step
HandlerStep == th'[Handler] # th[Handler]

\* C14: a connect command for a port that has a registry entry opens no
\* transport, leaves the registry unchanged and ends by publishing for the
\* port the status of a transport opened for it, the status the first
\* successful connect published.
C14_ConnectRegisteredNoOp ==
    [][(Publishing("connect") /\ HandlerStep) =>
           /\ transport' = transport
           /\ opened' = opened
           /\ open_devices' = open_devices
           /\ th'[Handler].pc # "KeyError"
           /\ th'[Handler].pc = "idle" =>
                  /\ out'.kind = "status"
                  /\ out'.port = th[Handler].port
                  /\ \E x \in Opened :
                         x[1] = th[Handler].port /\ out'.v = transport[x].cfg
      ]_vars

\* the step is the arrival of a connect command with an invalid request,
\* for port p
InvalidConnect(p) ==
    /\ th[Handler].pc = "idle"
    /\ \/ out'.kind = "rejected" /\ out'.port = p
       \/ th'[Handler].req \in InvalidRequests /\ th'[Handler].port = p

C16_SendUnregistered ==
    /\ [][(th[Handler].pc = "idle" /\ th'[Handler].cmd = "send") =>
              /\ (open_devices[th'[Handler].port] = 0) =
                     (th'[Handler].pc = "L151")
              /\ out'.kind = "none"
              /\ transport' = transport /\ open_devices' = open_devices
              /\ status' = status]_vars
    /\ [][(Publishing("send") /\ HandlerStep) =>
              /\ open_devices[th[Handler].port] = 0
              /\ transport' = transport /\ open_devices' = open_devices
              /\ out'.kind \in {"none", "status"}
              /\ th'[Handler].pc \in {"L158", "idle"}
              /\ th'[Handler].pc = "idle" =>
                     out' = [kind |-> "status", port |-> th[Handler].port,
                             v |-> "{}"]]_vars
    /\ [][(th[Handler].cmd = "send" /\ th[Handler].pc \in {"L344", "L345"}
           /\ HandlerStep) =>
              /\ th'[Handler].pc \in {"L345", "idle"}
              /\ th'[Handler].pc = "idle" => out'.kind \in {"write", "error"}
              /\ transport' = transport /\ open_devices' = open_devices
              /\ status' = status]_vars

\* a send for B, which has no registry entry while A has one, is about to
\* publish the empty status
C16_Witness ==
    /\ Publishing("send") /\ th[Handler].pc = "L158"
    /\ th[Handler].port = "B" /\ th[Handler].val = "{}"
    /\ open_devices["B"] = 0 /\ open_devices["A"] # 0

\* the step removes the registry entry of port p
Removes(p) == open_devices[p] # 0 /\ open_devices'[p] = 0

\* the handler thread is inside _serial_close
InClose ==
    /\ th[Handler].cmd = "close"
    /\ th[Handler].pc \in {"L172", "close_join", "L151", "L153", "L158"}

\* C17 as stated: the close command does not remove the registry entry; the
\* entry of a port is removed by connection_lost on the reader thread of its
\* transport, which then publishes the status of the port (the empty one,
\* unless the port has been registered again); a close for a port without
\* an entry publishes its empty status and changes nothing.
C17_CloseOnlyRequests ==
    /\ [][(InClose /\ HandlerStep) =>
              /\ open_devices' = open_devices
              /\ Publishing("close") =>
                     /\ transport' = transport
                     /\ th'[Handler].pc = "idle" =>
                            out' = [kind |-> "status",
                                    port |-> th[Handler].port, v |-> "{}"]
          ]_vars
    /\ [][\A p \in Ports :
              Removes(p) =>
                  \E x \in Transports :
                      /\ x[1] = p /\ th[x].pc = "L314"
                      /\ th'[x].pc = "L151" /\ th'[x].cmd = "lost"]_vars
    /\ [][\A x \in Transports :
              (th[x].cmd = "lost" /\ th'[x] # th[x]) =>
                  /\ th'[x].pc # "KeyError"
                  /\ th'[x].pc = "dead" =>
                         /\ out'.kind = "status" /\ out'.port = x[1]
                         /\ \/ out'.v = "{}"
                            \/ \E y \in Opened :
                                   /\ y[1] = x[1] /\ y[2] > x[2]
                                   /\ out'.v = transport[y].cfg]_vars

\* C18: when __exit__ has returned, no port of the registry holds an open
\* transport.
C18_TeardownLeavesNothingOpen ==
    th[Main].pc = "stopped" =>
        \A p \in Ports :
            open_devices[p] # 0 =>
                transport[<<p, open_devices[p]>>].serial # "open"

\* the step changes the registry entry, a transport or the published status
\* of port p
Touches(p) ==
    \/ open_devices'[p] # open_devices[p]
    \/ status'[p] # status[p]
    \/ opened'[p] # opened[p]
    \/ \E x \in Transports : x[1] = p /\ transport'[x] # transport[x]

\* the step is taken by a thread at work for port p: the reader thread of a
\* transport of p, or the handler or main thread in a command for p
WorksFor(p) ==
    \/ \E x \in Transports : x[1] = p /\ th'[x] # th[x]
    \/ \E t \in {Handler, Main} :
           /\ th'[t] # th[t]
           /\ th[t].port = p \/ (th[t].port = "none" /\ th'[t].port = p)

\* C19: a step that changes the registry entry, a transport or the
\* published status of a port is a step of a command or of a transport
\* event for that port: what is done for port A leaves them unchanged for
\* every other port B.
C19_PortsIndependent ==
    [][\A p \in Ports : Touches(p) => WorksFor(p)]_vars

\* A was connected and has lost its connection, while B stays registered
\* with its port open and its status published
C19_Witness ==
    /\ opened["A"] = 1 /\ open_devices["A"] = 0 /\ status["A"] = "{}"
    /\ th[<<"A", 1>>].pc = "dead"
    /\ open_devices["B"] = 1 /\ status["B"] = "c1"
    /\ transport[<<"B", 1>>].serial = "open"

\* ---- the session: writes during a disconnect window

\* the transport has reported connection_lost, no new one has been
\* started, and the session has been connected before
DisconnectWindow ==
    /\ pc["reader"] = "lost" /\ sub["reader"] = NoSub
    /\ flag["has_connected"]

\* C20: a write() with no timeout that is called during a disconnect window
\* blocks in its wait for `connected`.
C20_WriteBlocksInDisconnectWindow ==
    [][(/\ DisconnectWindow
        /\ pc["writer"] = "idle" /\ pc'["writer"] = "L183w"
        /\ ~wto'["writer"]) =>
           wst'["writer"] = "blocked"]_vars

\* ---- the session: after `closed`

\* C21: a write() called after `closed` was set forwards no data to any
\* transport.
C21_NoWriteAfterClosed ==
    [][(wclosed /\ pc["writer"] = "L183w" /\ pc'["writer"] = "done") =>
           sent' = sent]_vars

\* C22: the wait for connection of line 149 has a timeout, and can end by
\* it, only when has_connected was clear when the wait began (and a default
\* timeout is configured); with has_connected set the wait has no timeout:
\* it is blocked or has returned True.
C22_TimeoutOnlyBeforeFirstConnect ==
    pc["run"] = "L149w" =>
        /\ (wto["run"] \/ wst["run"] = "false") =>
               (~flag["has_connected"] /\ hasTimeout)
        /\ flag["has_connected"] =>
               (~wto["run"] /\ wst["run"] \in {"blocked", "true"})

\* the session has connected before, and run() is blocked without timeout in
\* the wait for the connection of its second transport
C22_Witness ==
    /\ pc["run"] = "L149w" /\ gen = 2 /\ flag["has_connected"]
    /\ wst["run"] = "blocked" /\ ~wto["run"]

\* C23: when the wait for connection of line 149 has ended by its timeout,
\* or with close requested, run() does not go on to line 156, where
\* `connected` and `has_connected` are set.
C23_SetOnlyWhenConnected ==
    [][(pc["run"] = "L149w" /\ pc'["run"] # "L149w"
        /\ (wst["run"] = "false" \/ flag["close_request"])) =>
           pc'["run"] # "L156"]_vars

\* C24: a transport is opened only when the previous one has been closed
\* and its reader thread has ended, and self.protocol is only ever replaced
\* by the protocol of the newest, open transport.
C24_OneOpenTransport ==
    /\ [][gen' # gen =>
              /\ gen' = gen + 1
              /\ ~serialOpen /\ serialOpen'
              /\ pc["reader"] \in {"none", "lost"}]_vars
    /\ [][protocol' # protocol =>
              (protocol' = gen /\ protocol' > protocol /\ serialOpen)]_vars

\* the protocol of the second transport of the session is installed
C24_Witness ==
    gen = 2 /\ protocol = 2 /\ serialOpen /\ pc["reader"] = "reading"

\* C25: whenever `closed` is set, no transport of the session is open.
C25_ClosedMeansNoOpenTransport ==
    flag["closed"] => ~serialOpen

\* ---- the session: errors

\* a step of the thread that runs KeepAliveReader.run
RunStep ==
    \/ run_L100 \/ run_L107 \/ run_L108 \/ run_L109
    \/ run_L114 \/ run_L118 \/ run_L119 \/ run_L121
    \/ run_L127 \/ run_L127_raise \/ run_L129 \/ run_L130 \/ run_L131
    \/ run_L139 \/ run_L141 \/ run_L143 \/ run_L145 \/ run_L149 \/ run_L151
    \/ run_L154 \/ run_L156 \/ run_L157 \/ run_L159 \/ run_L160 \/ run_L162
    \/ run_L164 \/ run_exit_with
    \/ WaitTimeout("run")
    \/ self_changed("run") \/ changed_read("run") \/ changed_write("run")

\* the thread of run() is scheduled again and again
SpecFair == Spec /\ WF_vars(RunStep)

\* C26: whenever `error` is set its exception is attached and run() is at
\* the `closed.set()` that follows or has returned; under fair scheduling
\* of run(), `closed` gets set and run() returns.
C26_ErrorThenClosed ==
    /\ [](flag["error"] =>
              /\ errorCause # "none"
              /\ pc["run"] \in {"L109", "L131", "L136", "done"}
              /\ pc["run"] = "done" => flag["closed"])
    /\ (flag["error"] ~> (flag["closed"] /\ pc["run"] = "done"))

\* the port could not be opened: `error` is set, with its cause, and run()
\* has returned
C26_Witness ==
    /\ flag["error"] /\ errorCause = "SerialException"
    /\ flag["closed"] /\ pc["run"] = "done" /\ sub["run"] = NoSub

\* C27: once `closed` is set it stays set, and `connected`, `has_connected`,
\* `error`, self.protocol and the transport change no more.
C27_ClosedIsTerminal ==
    [][flag["closed"] =>
           /\ flag'["closed"]
           /\ flag'["connected"] = flag["connected"]
           /\ flag'["has_connected"] = flag["has_connected"]
           /\ flag'["error"] = flag["error"]
           /\ gen' = gen /\ protocol' = protocol
           /\ serialOpen' = serialOpen]_vars

\* C28: whenever `closed` is set, `connected` is clear.
C28_ClosedMeansNotConnected ==
    flag["closed"] => ~flag["connected"]

\* ---- the manager: status publication on two kinds of thread

\* no thread of the manager is inside a command or a transport callback
ManagerQuiescent ==
    /\ th[Handler].pc = "idle"
    /\ th[Main].pc \in {"running", "stopped"}
    /\ \A x \in Transports : th[x].pc \in {"none", "reading", "dead"}

\* C29: no thread fails on a registry entry removed between the membership
\* check and the lookup, and in every quiescent state the retained status of
\* a port is non-empty exactly when the port is in the registry.
C29_StatusMatchesRegistry ==
    /\ \A t \in MThreads : th[t].pc # "KeyError"
    /\ ManagerQuiescent =>
           \A p \in Ports :
               (status[p] \notin {"none", "{}"}) = (open_devices[p] # 0)
====
